---- MODULE Spec2Model ----
(***************************************************************************)
(* A model of download_sorter.py: the per-file pipeline process_file       *)
(* (settling gate, content extraction, match_route, move_file) run by      *)
(* concurrent tasks, and the two watchers of main (watchdog events and     *)
(* the polling fallback) with the synchronous initial scan.                *)
(*                                                                         *)
(* File names, route patterns and file contents are sequences of one-      *)
(* character strings, so that lower(), Path.suffix, Path.stem, fnmatch     *)
(* and the substring test are computed as the code computes them.          *)
(***************************************************************************)
EXTENDS Integers, Sequences, FiniteSets, Bags, TLC

(***************************************************************************)
(* Text: str.lower(), the `in` substring test, Path.suffix, Path.stem      *)
(***************************************************************************)

UpperCase ==
    <<"A","B","C","D","E","F","G","H","I","J","K","L","M",
      "N","O","P","Q","R","S","T","U","V","W","X","Y","Z">>

LowerCase ==
    <<"a","b","c","d","e","f","g","h","i","j","k","l","m",
      "n","o","p","q","r","s","t","u","v","w","x","y","z">>

\* str.lower() on one character
LowerChar(c) ==
    IF \E i \in 1..Len(UpperCase) : UpperCase[i] = c
    THEN LowerCase[CHOOSE i \in 1..Len(UpperCase) : UpperCase[i] = c]
    ELSE c

\* str.lower()
Lower(s) == [i \in 1..Len(s) |-> LowerChar(s[i])]

\* `needle in hay` of two str
Contains(hay, needle) ==
    \E i \in 0..(Len(hay) - Len(needle)) :
        SubSeq(hay, i + 1, i + Len(needle)) = needle

\* str.startswith
StartsWith(s, prefix) ==
    /\ Len(prefix) <= Len(s)
    /\ SubSeq(s, 1, Len(prefix)) = prefix

\* str.rfind("."), 1-based; 0 when there is no dot
LastDot(name) ==
    IF \E i \in 1..Len(name) : name[i] = "."
    THEN CHOOSE i \in 1..Len(name) :
             /\ name[i] = "."
             /\ \A j \in (i + 1)..Len(name) : name[j] /= "."
    ELSE 0

\* Path.suffix: from the last dot, unless that dot leads or ends the name
Suffix(name) ==
    LET i == LastDot(name)
    IN  IF 1 < i /\ i < Len(name) THEN SubSeq(name, i, Len(name)) ELSE <<>>

\* Path.stem: the name without Path.suffix
Stem(name) ==
    LET i == LastDot(name)
    IN  IF 1 < i /\ i < Len(name) THEN SubSeq(name, 1, i - 1) ELSE name

(***************************************************************************)
(* fnmatch.fnmatch(name, pat): * any run, ? one character, [seq] / [!seq]  *)
(* a character class with a-z ranges; a [ that is never closed is literal. *)
(***************************************************************************)

\* ord() over the characters the model uses, for the ranges of a class
CharTable ==
    <<" ","$","(",")","*",".","0","1","2","3","4","5","6","7","8","9","?">>
    \o UpperCase \o <<"[","]","_">> \o LowerCase \o <<"~">>

Ord(c) == CHOOSE i \in 1..Len(CharTable) : CharTable[i] = c

\* index of the ] closing the class opened before position i (the first
\* character of the class, after a ! if any, may itself be ]); 0 when none
ClassEnd(pat, i) ==
    LET j0 == IF i <= Len(pat) /\ pat[i] = "!" THEN i + 1 ELSE i
        j1 == IF j0 <= Len(pat) /\ pat[j0] = "]" THEN j0 + 1 ELSE j0
    IN  IF \E j \in j1..Len(pat) : pat[j] = "]"
        THEN CHOOSE j \in j1..Len(pat) :
                 /\ pat[j] = "]"
                 /\ \A k \in j1..(j - 1) : pat[k] /= "]"
        ELSE 0

\* whether character c is in the class body stuff (without the leading !)
InClass(c, stuff) ==
    \E k \in 1..Len(stuff) :
        \/ /\ stuff[k] = c
           /\ ~(stuff[k] = "-" /\ 1 < k /\ k < Len(stuff))
        \/ /\ stuff[k] = "-" /\ 1 < k /\ k < Len(stuff)
           /\ Ord(stuff[k - 1]) <= Ord(c) /\ Ord(c) <= Ord(stuff[k + 1])

RECURSIVE GlobFrom(_, _, _, _)
\* whether name[i..] matches pat[j..] in full
GlobFrom(name, pat, i, j) ==
    IF j > Len(pat) THEN i > Len(name)
    ELSE IF pat[j] = "*" THEN
        \E k \in i..(Len(name) + 1) : GlobFrom(name, pat, k, j + 1)
    ELSE IF pat[j] = "?" THEN
        i <= Len(name) /\ GlobFrom(name, pat, i + 1, j + 1)
    ELSE IF pat[j] = "[" /\ ClassEnd(pat, j + 1) /= 0 THEN
        LET e == ClassEnd(pat, j + 1)
            neg == pat[j + 1] = "!"
            stuff == SubSeq(pat, IF neg THEN j + 2 ELSE j + 1, e - 1)
        IN  /\ i <= Len(name)
            /\ (InClass(name[i], stuff) /= neg)
            /\ GlobFrom(name, pat, i + 1, e + 1)
    ELSE
        /\ i <= Len(name)
        /\ name[i] = pat[j]
        /\ GlobFrom(name, pat, i + 1, j + 1)

fnmatch(name, pat) == GlobFrom(name, pat, 1, 1)

(***************************************************************************)
(* Configuration: ROUTES, the temporary-download conventions, and the      *)
(* extension sets imported from file_extensions                            *)
(***************************************************************************)

None == "None"

\* the ROUTES dict, in insertion order: pattern or keyword -> subfolder
ROUTES ==
    << [pattern |-> <<"i","n","v","o","i","c","e">>,             folder |-> "Finance"],
       [pattern |-> <<"r","e","c","e","i","p","t">>,             folder |-> "Finance"],
       [pattern |-> <<"t","a","x">>,                             folder |-> "Finance"],
       [pattern |-> <<"r","e","s","u","m","e">>,                 folder |-> "Resumes"],
       [pattern |-> <<"c","o","v","e","r"," ","l","e","t","t","e","r">>,
                                                                 folder |-> "Resumes"],
       [pattern |-> <<"*",".","p","n","g">>,                     folder |-> "Images"],
       [pattern |-> <<"*",".","j","p","g">>,                     folder |-> "Images"],
       [pattern |-> <<"*",".","j","p","e","g">>,                 folder |-> "Images"],
       [pattern |-> <<"*",".","g","i","f">>,                     folder |-> "Images"],
       [pattern |-> <<"r","e","p","o","r","t">>,                 folder |-> "Reports"],
       [pattern |-> <<"h","o","m","e","w","o","r","k">>,         folder |-> "School"],
       [pattern |-> <<"a","s","s","i","g","n","m","e","n","t">>, folder |-> "School"] >>

Folders == {ROUTES[r].folder : r \in 1..Len(ROUTES)}

\* tmp_suffixes of is_temporary_download
tmp_suffixes ==
    { <<".","c","r","d","o","w","n","l","o","a","d">>,
      <<".","p","a","r","t">>,
      <<".","t","m","p">>,
      <<".","d","o","w","n","l","o","a","d">> }

\* the lock-file prefix of is_temporary_download
LockPrefix == <<"~","$">>

\* is_temporary_download without the lock-file test of the name
is_temporary_download_SuffixOnly(name) ==
    Lower(Suffix(name)) \in tmp_suffixes

is_temporary_download(name) ==
    \/ Lower(Suffix(name)) \in tmp_suffixes
    \/ StartsWith(name, LockPrefix)

\* file_extensions.PLAIN_TEXT_EXTS (the module is not part of the sources)
PLAIN_TEXT_EXTS == { <<".","t","x","t">>, <<".","m","d">> }

\* file_extensions.CODE_EXTS
CODE_EXTS == { <<".","p","y">> }

\* file_extensions.CONTENT_SCAN_EXTS: the content-scan allow-list
CONTENT_SCAN_EXTS ==
    PLAIN_TEXT_EXTS \cup CODE_EXTS \cup
    { <<".","p","d","f">>, <<".","d","o","c","x">> }

PdfExt == <<".","p","d","f">>

WordExts ==
    { <<".","d","o","c","x">>, <<".","d","o","c","m">>,
      <<".","d","o","t","x">>, <<".","d","o","t","m">> }

(***************************************************************************)
(* match_route                                                             *)
(***************************************************************************)

\* any(ch in pattern for ch in "*?[]")
IsGlob(pattern) ==
    \E k \in 1..Len(pattern) : pattern[k] \in {"*", "?", "[", "]"}

\* the folder of the first route, in ROUTES order, among the indices hits
FirstFolder(hits) ==
    ROUTES[CHOOSE r \in hits : \A q \in hits : r <= q].folder

\* the routes treated as globs, and those treated as keywords
GlobRoutes == {r \in 1..Len(ROUTES) : IsGlob(ROUTES[r].pattern)}

KeywordRoutes == {r \in 1..Len(ROUTES) : ~IsGlob(ROUTES[r].pattern)}

\* pattern.lower() / key.lower() of every route
LowerPattern == [r \in 1..Len(ROUTES) |-> Lower(ROUTES[r].pattern)]

\* lines 85-88: the glob routes that match the lowered filename
GlobHits(lower_filename) ==
    {r \in GlobRoutes : fnmatch(lower_filename, LowerPattern[r])}

\* lines 91-94 and 98-101: the keyword routes contained in a lowered text
KeywordHits(lower_text) ==
    {r \in KeywordRoutes : Contains(lower_text, LowerPattern[r])}

\* match_route with the keyword loop over the filename run before the
\* glob loop
match_route_KeywordsFirst(filename, content) ==
    LET lower_filename == Lower(filename)
        lower_content == Lower(content)
        globs == GlobHits(lower_filename)
        keys == KeywordHits(lower_filename)
        inContent == KeywordHits(lower_content)
    IN  IF keys /= {} THEN FirstFolder(keys)
        ELSE IF globs /= {} THEN FirstFolder(globs)
        ELSE IF lower_content /= <<>> /\ inContent /= {} THEN FirstFolder(inContent)
        ELSE None

match_route(filename, content) ==
    LET lower_filename == Lower(filename)
        lower_content == Lower(content)
        globs == GlobHits(lower_filename)
        keys == KeywordHits(lower_filename)
        inContent == KeywordHits(lower_content)
    IN  IF globs /= {} THEN FirstFolder(globs)
        ELSE IF keys /= {} THEN FirstFolder(keys)
        ELSE IF lower_content /= <<>> /\ inContent /= {} THEN FirstFolder(inContent)
        ELSE None

(***************************************************************************)
(* extract_text                                                            *)
(***************************************************************************)

Raised == <<"Raised">>

\* a byte that is not valid UTF-8; read_text(errors="ignore") drops it
BadByte == "#"

\* bytes.decode("utf-8", errors="ignore")
Decode(bytes) == SelectSeq(bytes, LAMBDA b : b /= BadByte)

\* the body of extract_text's outer try block: the text, or Raised when an
\* exception leaves the block; fails says whether reading the file (or
\* importing and running the optional parser) raises
ExtractBody(name, text, fails) ==
    LET suffix == Lower(Suffix(name))
    IN  IF suffix \in PLAIN_TEXT_EXTS \cup CODE_EXTS
        THEN IF fails THEN Raised ELSE Decode(text)
        ELSE IF suffix = PdfExt
        THEN IF fails THEN <<>> ELSE text
        ELSE IF suffix \in WordExts
        THEN IF fails THEN <<>> ELSE text
        ELSE <<>>

\* extract_text without the outer except: an exception leaves it
extract_text_NoExcept(name, text, fails) == ExtractBody(name, text, fails)

\* extract_text: the outer `except Exception: return ""`
extract_text(name, text, fails) ==
    IF ExtractBody(name, text, fails) = Raised
    THEN <<>>
    ELSE ExtractBody(name, text, fails)

(***************************************************************************)
(* The files the environment may put into the watched directory            *)
(***************************************************************************)

homework == <<"h","o","m","e","w","o","r","k">>

assignment == <<"a","s","s","i","g","n","m","e","n","t">>

NoFile == [kind |-> "none", text |-> <<>>]

RegularFile(text) == [kind |-> "file", text |-> text]

\* what a writer may create in the watched directory: name and file
Arrivals ==
    { <<"a.txt", RegularFile(homework)>>,
      <<"report.crdownload", RegularFile(<<>>)>>,
      <<"invoice_march.pdf", RegularFile(<<>>)>>,
      <<"notes.bin", RegularFile(homework)>>,
      <<"~$tax.txt", RegularFile(homework)>>,
      <<"a (1).txt", RegularFile(assignment)>> }

\* the arrivals whose writer may go on writing after it has created the
\* file under its final name
Streamed == {"invoice_march.pdf"}

\* the renames a download client performs when a download completes
Renames == { <<"report.crdownload", "report.pdf">> }

Names == {a[1] : a \in Arrivals} \cup {r[2] : r \in Renames}

\* the characters of each name of the watched directory: Path.name
Chars ==
    [n \in Names |->
        CASE n = "a.txt" -> <<"a",".","t","x","t">>
          [] n = "report.crdownload" ->
               <<"r","e","p","o","r","t",".","c","r","d","o","w","n","l","o","a","d">>
          [] n = "report.pdf" -> <<"r","e","p","o","r","t",".","p","d","f">>
          [] n = "invoice_march.pdf" ->
               <<"i","n","v","o","i","c","e","_","m","a","r","c","h",".","p","d","f">>
          [] n = "notes.bin" -> <<"n","o","t","e","s",".","b","i","n">>
          [] n = "~$tax.txt" -> <<"~","$","t","a","x",".","t","x","t">>
          [] n = "a (1).txt" -> <<"a"," ","(","1",")",".","t","x","t">>]

\* the texts a file of the watched directory may hold
Texts == {a[2].text : a \in Arrivals}

\* the names is_temporary_download holds of
TemporaryNames == {n \in Names : is_temporary_download(Chars[n])}

\* the names with path.suffix.lower() in CONTENT_SCAN_EXTS (line 142)
ContentScanNames == {n \in Names : Lower(Suffix(Chars[n])) \in CONTENT_SCAN_EXTS}

\* the contents extract_text may return for them
Contents == Texts \cup {<<>>} \cup {Decode(t) : t \in Texts}

\* extract_text(path) by name, text and whether reading raises
ExtractOf ==
    [n \in Names, text \in Texts, fails \in BOOLEAN |->
        extract_text(Chars[n], text, fails)]

\* match_route(path.name, content) by name and content
RouteOf ==
    [n \in Names, content \in Contents |-> match_route(Chars[n], content)]

\* bound on the number of steps the environment takes
MaxEnv == 1

(***************************************************************************)
(* State                                                                   *)
(***************************************************************************)

VARIABLES
    watch,      \* "watchdog" when the import of watchdog succeeds, else "polling"
    coord,      \* where the main thread is
    downloads,  \* DOWNLOADS: name -> file, or NoFile
    destDirs,   \* the subfolders of DEST_ROOT that exist
    dest,       \* the files under DEST_ROOT: [folder, name, text]
    tasks,      \* the process_file calls in progress (a bag: threads have no order)
    done,       \* the process_file calls that have ended, as they ended
    scanTodo,   \* scan_existing_files: the entries not yet visited
    seen,       \* main_polling: seen
    env,        \* environment steps taken
    call,       \* a direct call of match_route: arguments and result
    writing     \* the names whose writer has not finished writing

vars ==
    <<watch, coord, downloads, destDirs, dest, tasks, done, scanTodo, seen, env, call,
      writing>>

NoCall == [filename |-> <<>>, content |-> <<>>, result |-> "NoCall"]

\* p.exists() and p.is_file()
IsFile(n) == downloads[n].kind = "file"

\* {p.name for p in DOWNLOADS.iterdir() if p.is_file()}
Listing == {n \in Names : IsFile(n)}

\* the process is alive: main has neither returned nor died of an exception
\* (the task threads and the observer are daemon threads)
Alive == coord \notin {"exited", "crashed"}

\* the watchdog observer is started and delivers events to Handler
Observing ==
    watch = "watchdog" /\ coord \in {"scan_begin", "scan", "scan_wait", "idle"}

\* a call process_file(path); sync: made by scan_existing_files in the main
\* thread, else the target of a thread
NewTask(n, sync) ==
    [path |-> n, pc |-> "check1", sync |-> sync, extracted |-> FALSE,
     failed |-> FALSE, content |-> <<>>, subfolder |-> None, dest |-> <<>>,
     i |-> 0, exc |-> None]

\* threading.Thread(target=process_file, args=(p,), daemon=True).start()
Spawn(ts, n) == ts (+) SetToBag({NewTask(n, FALSE)})

\* one thread per name of a set
SpawnAll(ts, ns) == ts (+) SetToBag({NewTask(n, FALSE) : n \in ns})

\* the ways process_file ends: return at line 128/130, at line 137/139,
\* no subfolder, after move_file, by an exception
Terminal == {"skipped1", "skipped2", "nomatch", "moved", "error"}

\* what a previous run left under DEST_ROOT
Prior == {[folder |-> "School", name |-> Chars["a.txt"], text |-> homework]}

\* the watched directory when the program starts: empty, or holding one
\* file left from before: a text file, an unfinished download or a document
Startups ==
    {{}} \cup
    {{a} : a \in {b \in Arrivals :
                    b[1] \in {"a.txt", "report.crdownload", "invoice_march.pdf"}}}

Init ==
    /\ watch \in {"watchdog", "polling"}
    /\ coord = "main"
    /\ \E start \in Startups :
          downloads = [n \in Names |->
                         IF \E a \in start : a[1] = n
                         THEN (CHOOSE a \in start : a[1] = n)[2]
                         ELSE NoFile]
    /\ dest = Prior
    /\ destDirs = {f.folder : f \in Prior}
    /\ tasks = EmptyBag
    /\ done = {}
    /\ scanTodo = {}
    /\ seen = {}
    /\ env = 0
    /\ call = NoCall
    /\ writing = {}

(***************************************************************************)
(* process_file, one action per step of a task                             *)
(***************************************************************************)

\* the main thread after its own process_file call (from
\* scan_existing_files) ended in pc; a thread's end leaves it alone
CoordAfter(r, pc) ==
    IF r.sync
    THEN IF pc = "error" THEN "crashed" ELSE "scan"
    ELSE coord

\* task r goes on as record q; a Terminal pc ends process_file
Goto(r, q) ==
    /\ tasks' = IF q.pc \in Terminal
                THEN tasks (-) SetToBag({r})
                ELSE (tasks (-) SetToBag({r})) (+) SetToBag({q})
    /\ done' = IF q.pc \in Terminal THEN done \cup {q} ELSE done
    /\ coord' = IF q.pc \in Terminal THEN CoordAfter(r, q.pc) ELSE coord

\* an exception leaves process_file
Raise(r, exc) == Goto(r, [r EXCEPT !.pc = "error", !.exc = exc])

\* the check without `not path.exists() or not path.is_file()`
Rejected_NoExistsCheck(n) == n \in TemporaryNames

\* not path.exists() or not path.is_file(), then is_temporary_download(path)
Rejected(n) == ~IsFile(n) \/ n \in TemporaryNames

\* lines 127-133: the first check, then time.sleep(SETTLE_SECONDS) begins
Check1(r) ==
    /\ Alive
    /\ r.pc = "check1"
    /\ IF Rejected(r.path)
       THEN Goto(r, [r EXCEPT !.pc = "skipped1"])
       ELSE Goto(r, [r EXCEPT !.pc = "settling"])
    /\ UNCHANGED <<watch, downloads, destDirs, dest, scanTodo, seen, env, call, writing>>

\* process_file without the checks after the sleep
Check2_NoRecheck(r) ==
    /\ Alive
    /\ r.pc = "settling"
    /\ Goto(r, [r EXCEPT !.pc = "classify"])
    /\ UNCHANGED <<watch, downloads, destDirs, dest, scanTodo, seen, env, call, writing>>

\* lines 133-139: the sleep ends, the check again
Check2(r) ==
    /\ Alive
    /\ r.pc = "settling"
    /\ IF Rejected(r.path)
       THEN Goto(r, [r EXCEPT !.pc = "skipped2"])
       ELSE Goto(r, [r EXCEPT !.pc = "classify"])
    /\ UNCHANGED <<watch, downloads, destDirs, dest, scanTodo, seen, env, call, writing>>

\* process_file calling move_file whatever match_route returned
Routed_AlwaysMoves(r, extracted, failed, content) ==
    LET subfolder == RouteOf[r.path, content]
        q == [r EXCEPT !.extracted = extracted, !.failed = failed,
                       !.content = content, !.subfolder = subfolder]
    IN  Goto(r, [q EXCEPT !.pc = "mkdir"])

\* lines 145-147, on the content read: subfolder = match_route(...)
Routed(r, extracted, failed, content) ==
    LET subfolder == RouteOf[r.path, content]
        q == [r EXCEPT !.extracted = extracted, !.failed = failed,
                       !.content = content, !.subfolder = subfolder]
    IN  IF subfolder /= None
        THEN Goto(r, [q EXCEPT !.pc = "mkdir"])
        ELSE Goto(r, [q EXCEPT !.pc = "nomatch"])

\* process_file calling extract_text whatever the suffix
Classify_AnySuffix(r) ==
    LET n == r.path
    IN  /\ Alive
        /\ r.pc = "classify"
        /\ \E fails \in (IF IsFile(n) THEN BOOLEAN ELSE {TRUE}) :
              LET content == ExtractOf[n, downloads[n].text, fails]
              IN  IF content = Raised
                  THEN Raise(r, "Exception")
                  ELSE Routed(r, TRUE, fails, content)
        /\ UNCHANGED <<watch, downloads, destDirs, dest, scanTodo, seen, env, call, writing>>

\* lines 141-147: content = extract_text(path) for an allow-listed suffix,
\* then match_route. Reading raises when the file is gone by now, and may
\* raise for any file (unreadable, corrupt, parser not installed).
Classify(r) ==
    LET n == r.path
    IN  /\ Alive
        /\ r.pc = "classify"
        /\ IF n \in ContentScanNames
           THEN \E fails \in (IF IsFile(n) THEN BOOLEAN ELSE {TRUE}) :
                  LET content == ExtractOf[n, downloads[n].text, fails]
                  IN  IF content = Raised
                      THEN Raise(r, "Exception")
                      ELSE Routed(r, TRUE, fails, content)
           ELSE Routed(r, FALSE, FALSE, <<>>)
        /\ UNCHANGED <<watch, downloads, destDirs, dest, scanTodo, seen, env, call, writing>>

(***************************************************************************)
(* move_file                                                               *)
(***************************************************************************)

RECURSIVE Digits(_)
\* str(i) of a positive int
Digits(i) ==
    LET d == <<"0","1","2","3","4","5","6","7","8","9">>[(i % 10) + 1]
    IN  IF i < 10 THEN <<d>> ELSE Digits(i \div 10) \o <<d>>

\* f"{stem} ({i}){suf}"
Candidate(name, i) ==
    Stem(name) \o <<" ", "(">> \o Digits(i) \o <<")">> \o Suffix(name)

\* (dest_dir / name).exists()
Occupied(folder, name) ==
    \E f \in dest : f.folder = folder /\ f.name = name

\* lines 107-109: dest_dir.mkdir(parents=True, exist_ok=True), which raises
\* when the folder cannot be created; dest = dest_dir / src.name
Mkdir(r) ==
    /\ Alive
    /\ r.pc = "mkdir"
    /\ \/ /\ destDirs' = destDirs \cup {r.subfolder}
          /\ Goto(r, [r EXCEPT !.pc = "exists", !.dest = Chars[r.path]])
       \/ /\ r.subfolder \notin destDirs
          /\ destDirs' = destDirs
          /\ Raise(r, "OSError")
    /\ UNCHANGED <<watch, downloads, dest, scanTodo, seen, env, call, writing>>

\* move_file without the test of dest.exists(): the first target is used
Exists_NoProbe(r) ==
    /\ Alive
    /\ r.pc = "exists"
    /\ Goto(r, [r EXCEPT !.pc = "move"])
    /\ UNCHANGED <<watch, downloads, destDirs, dest, scanTodo, seen, env, call, writing>>

\* lines 112-114: if dest.exists(): i = 1
Exists(r) ==
    /\ Alive
    /\ r.pc = "exists"
    /\ IF Occupied(r.subfolder, r.dest)
       THEN Goto(r, [r EXCEPT !.pc = "probe", !.i = 1])
       ELSE Goto(r, [r EXCEPT !.pc = "move"])
    /\ UNCHANGED <<watch, downloads, destDirs, dest, scanTodo, seen, env, call, writing>>

\* lines 115-120: one round of the while loop over candidates
Probe(r) ==
    LET candidate == Candidate(Chars[r.path], r.i)
    IN  /\ Alive
        /\ r.pc = "probe"
        /\ IF ~Occupied(r.subfolder, candidate)
           THEN Goto(r, [r EXCEPT !.pc = "move", !.dest = candidate])
           ELSE Goto(r, [r EXCEPT !.i = r.i + 1])
        /\ UNCHANGED <<watch, downloads, destDirs, dest, scanTodo, seen, env, call, writing>>

\* shutil.move losing the source when it fails
Move_LosesSourceOnError(r) ==
    LET n == r.path
    IN  /\ Alive
        /\ r.pc = "move"
        /\ \/ /\ downloads[n] /= NoFile
              /\ downloads' = [downloads EXCEPT ![n] = NoFile]
              /\ dest' = {f \in dest : ~(f.folder = r.subfolder /\ f.name = r.dest)}
                         \cup {[folder |-> r.subfolder, name |-> r.dest,
                                text |-> downloads[n].text]}
              /\ Goto(r, [r EXCEPT !.pc = "moved"])
           \/ /\ downloads[n] /= NoFile
              /\ downloads' = [downloads EXCEPT ![n] = NoFile]
              /\ UNCHANGED dest
              /\ Raise(r, "OSError")
           \/ /\ downloads[n] = NoFile
              /\ UNCHANGED <<downloads, dest>>
              /\ Raise(r, "FileNotFoundError")
        /\ UNCHANGED <<watch, destDirs, scanTodo, seen, env, call, writing>>

\* line 122: shutil.move(src, dest). It raises FileNotFoundError when src
\* is gone, and may raise for the environment's reasons (permissions); a
\* file at dest is replaced (os.rename, or copy2 over it).
Move(r) ==
    LET n == r.path
    IN  /\ Alive
        /\ r.pc = "move"
        /\ \/ /\ downloads[n] /= NoFile
              /\ downloads' = [downloads EXCEPT ![n] = NoFile]
              /\ dest' = {f \in dest : ~(f.folder = r.subfolder /\ f.name = r.dest)}
                         \cup {[folder |-> r.subfolder, name |-> r.dest,
                                text |-> downloads[n].text]}
              /\ Goto(r, [r EXCEPT !.pc = "moved"])
           \/ /\ downloads[n] /= NoFile
              /\ UNCHANGED <<downloads, dest>>
              /\ Raise(r, "OSError")
           \/ /\ downloads[n] = NoFile
              /\ UNCHANGED <<downloads, dest>>
              /\ Raise(r, "FileNotFoundError")
        /\ UNCHANGED <<watch, destDirs, scanTodo, seen, env, call, writing>>

(***************************************************************************)
(* main, scan_existing_files, main_polling                                 *)
(***************************************************************************)

\* main up to scan_existing_files: with watchdog, observer.start()
Main ==
    /\ coord = "main"
    /\ coord' = "scan_begin"
    /\ UNCHANGED <<watch, downloads, destDirs, dest, tasks, done, scanTodo, seen, env, call, writing>>

\* line 151: DOWNLOADS.iterdir() lists the directory
ScanBegin ==
    /\ coord = "scan_begin"
    /\ scanTodo' = {n \in Names : downloads[n] /= NoFile}
    /\ coord' = "scan"
    /\ UNCHANGED <<watch, downloads, destDirs, dest, tasks, done, seen, env, call, writing>>

\* lines 151-153: the next entry; process_file(p) runs in the main thread
ScanNext ==
    /\ coord = "scan"
    /\ \E n \in scanTodo :
          /\ scanTodo' = scanTodo \ {n}
          /\ IF IsFile(n)
             THEN /\ tasks' = tasks (+) SetToBag({NewTask(n, TRUE)})
                  /\ coord' = "scan_wait"
             ELSE UNCHANGED <<tasks, coord>>
    /\ UNCHANGED <<watch, downloads, destDirs, dest, done, seen, env, call, writing>>

\* scan_existing_files returns: main sleeps in its loop (watchdog), or
\* main_polling starts and initialises seen (line 162)
ScanDone ==
    /\ coord = "scan"
    /\ scanTodo = {}
    /\ IF watch = "watchdog"
       THEN coord' = "idle" /\ seen' = seen
       ELSE coord' = "poll" /\ seen' = Listing
    /\ UNCHANGED <<watch, downloads, destDirs, dest, tasks, done, scanTodo, env, call, writing>>

\* the polling loop without `seen = current`
Poll_KeepsSeen ==
    LET current == Listing
        new_files == current \ seen
    IN  /\ coord = "poll"
        /\ tasks' = SpawnAll(tasks, new_files)
        /\ seen' = seen
        /\ UNCHANGED <<watch, coord, downloads, destDirs, dest, done, scanTodo, env, call, writing>>

\* lines 165-171: one round of the polling loop
Poll ==
    LET current == Listing
        new_files == current \ seen
    IN  /\ coord = "poll"
        /\ tasks' = SpawnAll(tasks, new_files)
        /\ seen' = current
        /\ UNCHANGED <<watch, coord, downloads, destDirs, dest, done, scanTodo, env, call, writing>>

\* KeyboardInterrupt in the main thread: main returns (or dies), the process
\* exits and its daemon threads with it
Interrupt ==
    /\ Alive
    /\ coord /= "main"
    /\ coord' = "exited"
    /\ UNCHANGED <<watch, downloads, destDirs, dest, tasks, done, scanTodo, seen, env, call, writing>>

(***************************************************************************)
(* The environment: writers and the user acting on the watched directory   *)
(***************************************************************************)

\* Handler.on_created / on_modified for a file: a thread for its path
Notify(n) == IF Observing THEN Spawn(tasks, n) ELSE tasks

\* a writer creates a file, written at once or still being written
Create(n, file) ==
    /\ Alive
    /\ env < MaxEnv
    /\ downloads[n] = NoFile
    /\ downloads' = [downloads EXCEPT ![n] = file]
    /\ tasks' = Notify(n)
    /\ env' = env + 1
    /\ \E open \in (IF n \in Streamed THEN BOOLEAN ELSE {FALSE}) :
          writing' = IF open THEN writing \cup {n} ELSE writing
    /\ UNCHANGED <<watch, coord, destDirs, dest, done, scanTodo, seen, call>>

\* the writer of a file finishes and closes it
Finish(n) ==
    /\ Alive
    /\ n \in writing
    /\ writing' = writing \ {n}
    /\ UNCHANGED <<watch, coord, downloads, destDirs, dest, tasks, done, scanTodo, seen, env, call>>

\* a writer writes to an existing file
Modify(n) ==
    /\ Alive
    /\ env < MaxEnv
    /\ Observing
    /\ IsFile(n)
    /\ tasks' = Notify(n)
    /\ env' = env + 1
    /\ UNCHANGED <<watch, coord, downloads, destDirs, dest, done, scanTodo, seen, call, writing>>

\* a download client renames a finished download inside the directory;
\* watchdog reports it as a moved event, which Handler does not handle
Rename(old, new) ==
    /\ Alive
    /\ env < MaxEnv
    /\ downloads[old] /= NoFile
    /\ downloads[new] = NoFile
    /\ downloads' = [downloads EXCEPT ![old] = NoFile, ![new] = downloads[old]]
    /\ writing' = writing \ {old}
    /\ env' = env + 1
    /\ UNCHANGED <<watch, coord, destDirs, dest, tasks, done, scanTodo, seen, call>>

\* the user deletes a file or moves it out of the directory
Remove(n) ==
    /\ Alive
    /\ env < MaxEnv
    /\ downloads[n] /= NoFile
    /\ downloads' = [downloads EXCEPT ![n] = NoFile]
    /\ writing' = writing \ {n}
    /\ env' = env + 1
    /\ UNCHANGED <<watch, coord, destDirs, dest, tasks, done, scanTodo, seen, call>>

Task ==
    \/ \E r \in BagToSet(tasks) : Check1(r)
    \/ \E r \in BagToSet(tasks) : Check2(r)
    \/ \E r \in BagToSet(tasks) : Classify(r)
    \/ \E r \in BagToSet(tasks) : Mkdir(r)
    \/ \E r \in BagToSet(tasks) : Exists(r)
    \/ \E r \in BagToSet(tasks) : Probe(r)
    \/ \E r \in BagToSet(tasks) : Move(r)

Coordinator == Main \/ ScanBegin \/ ScanNext \/ ScanDone \/ Poll

Environment ==
    \/ \E a \in Arrivals : Create(a[1], a[2])
    \/ \E n \in Names : Modify(n)
    \/ \E n \in Names : Remove(n)
    \/ \E r \in Renames : Rename(r[1], r[2])
    \/ \E n \in Names : Finish(n)
    \/ Interrupt

Next == Task \/ Coordinator \/ Environment

Spec == Init /\ [][Next]_vars

\* the threads get to run, and so does the main thread: every step of a task
\* or of main that stays possible is eventually taken. Nothing obliges the
\* environment to act.
FairSpec == Spec /\ WF_vars(Task) /\ WF_vars(Coordinator)

\* the runs in which process_file calls do not overlap: a new call starts
\* only after the one before it has ended
Sequential == BagCardinality(tasks) <= 1

NextSeq == Next /\ Sequential'

SpecSeq == Init /\ [][NextSeq]_vars

(***************************************************************************)
(* match_route called on its own, on any filename and content              *)
(***************************************************************************)

MatchNames ==
    { <<"p","h","o","t","o",".","P","N","G">>,
      <<"t","a","x",".","P","N","G">>,
      <<"R","e","p","o","r","t",".","g","i","f">>,
      <<"r","e","p","o","r","t",".","t","x","t">>,
      <<"h","o","m","e","w","o","r","k","_","r","e","p","o","r","t",".","t","x","t">>,
      <<"I","N","V","O","I","C","E",".","p","d","f">>,
      <<"a",".","t","x","t">>,
      <<"n","o","t","e","s",".","b","i","n">>,
      <<"x",".","p","n","g",".","t","x","t">>,
      <<".","j","p","g">> }

MatchContents ==
    { <<>>,
      <<"h","o","m","e","w","o","r","k">>,
      <<"m","y"," ","T","A","X">>,
      <<"r","e","s","u","m","e"," ","a","n","d"," ","r","e","c","e","i","p","t">>,
      <<"*",".","p","n","g">>,
      <<"n","o","n","e">> }

InitMatch ==
    /\ watch \in {"watchdog", "polling"}
    /\ coord = "main"
    /\ downloads = [n \in Names |-> NoFile]
    /\ dest = Prior
    /\ destDirs = {f.folder : f \in Prior}
    /\ tasks = EmptyBag
    /\ done = {}
    /\ scanTodo = {}
    /\ seen = {}
    /\ env = 0
    /\ writing = {}
    /\ \E f \in MatchNames, c \in MatchContents :
          call = [filename |-> f, content |-> c, result |-> "pending"]

\* subfolder = match_route(filename, content)
CallMatchRoute ==
    /\ call.result = "pending"
    /\ call' = [call EXCEPT !.result = match_route(call.filename, call.content)]
    /\ UNCHANGED <<watch, coord, downloads, destDirs, dest, tasks, done, scanTodo, seen, env, writing>>

SpecMatch == InitMatch /\ [][CallMatchRoute]_vars


(***************************************************************************)
(* Properties                                                              *)
(***************************************************************************)

\* every process_file call, running or ended
AllTasks == BagToSet(tasks) \cup done

\* move_file has been called by r: it is in it, has returned from it, or
\* has left it by an exception
InMoveFile(r) ==
    \/ r.pc \in {"mkdir", "exists", "probe", "move", "moved"}
    \/ r.pc = "error" /\ r.exc \in {"OSError", "FileNotFoundError"}

\* r has passed lines 141-146: content read and subfolder decided
Classified(r) == r.pc = "nomatch" \/ InMoveFile(r)

\* the last Len(suf) characters of name, when name is longer than suf
EndsWith(name, suf) ==
    /\ Len(name) > Len(suf)
    /\ SubSeq(name, Len(name) - Len(suf) + 1, Len(name)) = suf

\* a temporary-download name: suffix .crdownload, .part, .tmp or .download
\* in any letter case, or a name starting with ~$
TemporaryConvention(name) ==
    \/ \E suf \in { <<".","c","r","d","o","w","n","l","o","a","d">>,
                    <<".","p","a","r","t">>, <<".","t","m","p">>,
                    <<".","d","o","w","n","l","o","a","d">> } :
          EndsWith(Lower(name), suf)
    \/ Len(name) >= 2 /\ name[1] = "~" /\ name[2] = "$"

\* the folders of the glob routes matching a filename
GlobFolders(filename) ==
    { ROUTES[k].folder : k \in
        { k \in 1..Len(ROUTES) :
            /\ IsGlob(ROUTES[k].pattern)
            /\ fnmatch(Lower(filename), Lower(ROUTES[k].pattern)) } }

\* the folders of the keyword routes whose keyword a text contains
KeywordFolders(text) ==
    { ROUTES[k].folder : k \in
        { k \in 1..Len(ROUTES) :
            /\ ~IsGlob(ROUTES[k].pattern)
            /\ Contains(Lower(text), Lower(ROUTES[k].pattern)) } }

\* the names of the watched directory with a temporary-download name
TemporaryByConvention == {n \in Names : TemporaryConvention(Chars[n])}

\* the names no glob matches and no keyword is in
UnroutedNames ==
    {n \in Names : GlobFolders(Chars[n]) \cup KeywordFolders(Chars[n]) = {}}

\* the names whose suffix is in the content-scan allow-list
AllowListedNames ==
    {n \in Names : Lower(Suffix(Chars[n])) \in CONTENT_SCAN_EXTS}

\* the folders of the keywords in each content
ContentFolders == [c \in Contents |-> KeywordFolders(c)]

\* "stem (k)suffix"
Numbered(name, k) ==
    Stem(name) \o <<" ", "(">> \o Digits(k) \o <<")">> \o Suffix(name)

\* the names of the watched directory, as they are and numbered, and those
\* of them with a temporary-download name
PlainNames ==
    {Chars[n] : n \in Names} \cup {Numbered(Chars[n], k) : n \in Names, k \in 1..3}

TemporaryPlainNames == {name \in PlainNames : TemporaryConvention(name)}

\* C1: a file whose name matches a temporary-download convention is never
\* moved: no process_file call on such a path gets past the first check
\* (so none sleeps, classifies or calls move_file for it), whatever the
\* file holds and however often it is dispatched, and no file arrives
\* under DEST_ROOT with such a name.
C1_TemporaryNeverMoved ==
    /\ \A r \in AllTasks :
          r.path \in TemporaryByConvention => r.pc \in {"check1", "skipped1"}
    /\ \A f \in dest :
          IF f.name \in PlainNames
          THEN f.name \notin TemporaryPlainNames
          ELSE ~TemporaryConvention(f.name)

\* a lock file whose name and content both match a route has been
\* dispatched and skipped, and is still in the watched directory
C1_Witness ==
    \E r \in done :
        /\ r.path \in TemporaryByConvention
        /\ r.pc = "skipped1"
        /\ IsFile(r.path)
        /\ KeywordFolders(Chars[r.path]) /= {}
        /\ KeywordFolders(downloads[r.path].text) /= {}

\* C2: phase precedence of match_route. When a glob route matches the
\* filename the result is the folder of a matching glob route; else, when
\* a keyword is in the filename, the folder of such a keyword; the content
\* decides only when neither filename phase matches, and then the result is
\* the folder of a keyword in the content, or none when there is none.
C2_PhasePrecedence ==
    call.result \notin {"pending", "NoCall"} =>
        LET G == GlobFolders(call.filename)
            K == KeywordFolders(call.filename)
            KC == KeywordFolders(call.content)
        IN  /\ G /= {} => call.result \in G
            /\ (G = {} /\ K /= {}) => call.result \in K
            /\ (G = {} /\ K = {} /\ KC /= {}) => call.result \in KC
            /\ (G = {} /\ K = {} /\ KC = {}) => call.result = None

\* match_route has returned for a filename that a glob and a keyword match,
\* with a content that holds a keyword too
C2_Witness ==
    /\ call.result \notin {"pending", "NoCall"}
    /\ GlobFolders(call.filename) /= {}
    /\ KeywordFolders(call.filename) /= {}
    /\ KeywordFolders(call.content) /= {}
    /\ KeywordFolders(call.content) /= KeywordFolders(call.filename)

\* the name the claim gives a file called name moved into folder: name when
\* free, else "stem (k)suffix" for the smallest k >= 1 that is free
FreeName(folder, name) ==
    IF ~Occupied(folder, name) THEN name
    ELSE Numbered(name,
            CHOOSE k \in 1..(Cardinality(dest) + 1) :
                /\ ~Occupied(folder, Numbered(name, k))
                /\ \A j \in 1..(k - 1) : Occupied(folder, Numbered(name, j)))

\* C3: when process_file calls do not overlap, every move puts the file at
\* destination/name when that name is free, else at "stem (k)suffix" for
\* the smallest free k >= 1, and every file that was under the destination
\* is still there with its content.
C3_CollisionResolution ==
    [][ \A r \in BagToSet(tasks) :
          ( /\ r.pc = "move"
            /\ CopiesIn(r, tasks') < CopiesIn(r, tasks)
            /\ downloads[r.path] /= NoFile
            /\ downloads'[r.path] = NoFile )
          => /\ r.dest = FreeName(r.subfolder, Chars[r.path])
             /\ dest' = dest \cup {[folder |-> r.subfolder,
                                   name |-> FreeName(r.subfolder, Chars[r.path]),
                                   text |-> downloads[r.path].text]}
             /\ Cardinality(dest') = Cardinality(dest) + 1 ]_vars

\* a.txt has been moved twice into the folder that held a.txt: the folder
\* holds a.txt, a (1).txt and a (2).txt
C3_Witness ==
    /\ [folder |-> "School", name |-> Chars["a.txt"], text |-> homework] \in dest
    /\ \E f \in dest : f.folder = "School" /\ f.name = <<"a"," ","(","1",")",".","t","x","t">>
    /\ \E f \in dest : f.folder = "School" /\ f.name = <<"a"," ","(","2",")",".","t","x","t">>

\* C4: a process_file call that makes its first check after another call
\* has moved the file away, with nothing at the path, ends there as
\* skipped, and the step changes nothing on disk.
C4_RedispatchIsNoOp ==
    [][ \A r \in BagToSet(tasks) :
          ( /\ r.pc = "check1"
            /\ CopiesIn(r, tasks') < CopiesIn(r, tasks)
            /\ downloads[r.path] = NoFile
            /\ \E q \in done : q.path = r.path /\ q.pc = "moved" )
          => /\ [r EXCEPT !.pc = "skipped1"] \in done'
             /\ CopiesIn(r, tasks') = CopiesIn(r, tasks) - 1
             /\ BagCardinality(tasks') = BagCardinality(tasks) - 1
             /\ UNCHANGED <<downloads, dest, destDirs>> ]_vars

\* one call has moved the file of a path, and a second call for the path
\* has ended as skipped at its first check
C4_Witness ==
    \E q, r \in done :
        /\ q.path = r.path
        /\ q.pc = "moved"
        /\ r.pc = "skipped1"
        /\ r.path \notin TemporaryByConvention
        /\ downloads[r.path] = NoFile

\* C5: redundant dispatches for one path are harmless: once a call has moved
\* the file, no other call for that path ends with the error of moving a
\* file that is gone.
C5_RedundantDispatchHarmless ==
    \A q, r \in done :
        (q.pc = "moved" /\ r.path = q.path) => r.exc /= "FileNotFoundError"

\* the name matches a route by itself and is not a temporary name
RoutableByName(n) == n \notin TemporaryByConvention \cup UnroutedNames

\* the file of path n has left the watched directory, or the process has
\* ended, or a call for n has ended with an error
Settled(n) ==
    \/ ~IsFile(n)
    \/ ~Alive
    \/ \E r \in done : r.path = n /\ r.pc = "error"

\* C6: in the polling fallback every regular, non-temporary file whose name
\* matches a route, whenever it arrives, is eventually dispatched and moved
\* (unless someone else takes it away, the process is stopped, or its move
\* fails).
C6_PollingRoutesEveryArrival ==
    \A n \in {m \in Names : RoutableByName(m)} :
        (watch = "polling" /\ IsFile(n)) ~> Settled(n)

\* C7: a download renamed inside the watched directory from its temporary
\* name to its final, route-matching name is never moved under the
\* temporary name, and with the event-driven watcher it is eventually
\* dispatched and moved under its final name.
C7_RenamedDownloadIsRouted ==
    /\ [](\A p \in Renames : \A r \in AllTasks :
            r.path = p[1] => r.pc \in {"check1", "skipped1"})
    /\ \A p \in {q \in Renames : RoutableByName(q[2])} :
          (watch = "watchdog" /\ IsFile(p[2])) ~> Settled(p[2])

\* C8: a move error ends only the call it happened in: the main thread
\* does not die of it.
C8_MoveErrorEndsOnlyItsTask ==
    (\E r \in done : r.pc = "error") => coord /= "crashed"

\* C9: for a file whose name matches no glob and no keyword, move_file is
\* called if and only if the suffix is in the content-scan allow-list and
\* the extracted text holds a keyword, and then with the folder of such a
\* keyword; with a suffix outside the allow-list extract_text is not
\* called, the content is empty and the call ends with no match.
C9_ContentPhaseOnlyForAllowListed ==
    \A r \in AllTasks :
        (Classified(r) /\ r.path \in UnroutedNames)
        => LET allowed == r.path \in AllowListedNames
           IN  /\ InMoveFile(r) <=> (allowed /\ ContentFolders[r.content] /= {})
               /\ InMoveFile(r) => r.subfolder \in ContentFolders[r.content]
               /\ allowed <=> r.extracted
               /\ ~allowed => (r.content = <<>> /\ r.pc = "nomatch")

\* a.txt, whose name matches nothing, has been moved on its content, and
\* notes.bin, with the same content, has ended with no match and is still
\* in the watched directory
C9_Witness ==
    /\ \E r \in done :
          /\ r.path = "a.txt" /\ r.pc = "moved" /\ r.subfolder = "School"
          /\ r.content = homework
    /\ \E r \in done :
          /\ r.path = "notes.bin" /\ r.pc = "nomatch"
          /\ IsFile("notes.bin") /\ downloads["notes.bin"].text = homework

\* the folder the filename alone decides: a matching glob's, else that of a
\* keyword in the filename
FilenameFolders ==
    [n \in Names |->
        IF GlobFolders(Chars[n]) /= {}
        THEN GlobFolders(Chars[n])
        ELSE KeywordFolders(Chars[n])]

\* C10: a failed extraction never ends a call: no call ends with an
\* exception out of extract_text, and a call whose extraction failed has
\* empty content and is classified by its filename alone, so that
\* invoice_march.pdf goes to Finance.
C10_ExtractionFailureAbsorbed ==
    \A r \in AllTasks :
        /\ r.exc /= "Exception"
        /\ r.failed => r.content = <<>>
        /\ (r.failed /\ Classified(r)) =>
              /\ InMoveFile(r) <=> FilenameFolders[r.path] /= {}
              /\ InMoveFile(r) => r.subfolder \in FilenameFolders[r.path]
        /\ (r.failed /\ Classified(r) /\ r.path = "invoice_march.pdf") =>
              (InMoveFile(r) /\ r.subfolder = "Finance")

\* invoice_march.pdf, whose text could not be extracted, is in Finance
C10_Witness ==
    /\ \E r \in done :
          /\ r.path = "invoice_march.pdf" /\ r.failed /\ r.pc = "moved"
          /\ r.subfolder = "Finance"
    /\ \E f \in dest : f.folder = "Finance" /\ f.name = Chars["invoice_march.pdf"]

\* a process_file call in state r takes a step, and one in state q appears
Left(r) == CopiesIn(r, tasks') < CopiesIn(r, tasks)

Entered(q) == CopiesIn(q, tasks') > CopiesIn(q, tasks)

\* the same call: the same path, made by the same caller
SameCall(r, q) == r.path = q.path /\ r.sync = q.sync

\* r has not read, classified or moved anything
Untouched(r) == r = [NewTask(r.path, r.sync) EXCEPT !.pc = r.pc]

\* the file of path n is there, regular, and not a temporary download
Admitted(n) == IsFile(n) /\ n \notin TemporaryByConvention

\* C11: when match_route returns none, move_file is never called, and the
\* step that classifies a file changes neither the watched directory nor
\* the destination tree: a call that ends there ends with no match.
C11_NoMatchNoEffect ==
    /\ [](\A r \in AllTasks : r.subfolder = None => ~InMoveFile(r))
    /\ [][ \A r \in BagToSet(tasks) :
            (r.pc = "classify" /\ Left(r))
            => /\ UNCHANGED <<downloads, dest, destDirs>>
               /\ BagCardinality(tasks') < BagCardinality(tasks)
                  => \E q \in done' :
                        SameCall(r, q) /\ q.pc = "nomatch" /\ q.subfolder = None ]_vars

\* a call has ended with no match: its file is still in the watched
\* directory and the destination tree is as it was at the start
C11_Witness ==
    \E r \in done :
        /\ r.pc = "nomatch"
        /\ r.subfolder = None
        /\ IsFile(r.path)
        /\ dest = Prior
        /\ destDirs = {f.folder : f \in Prior}

\* C12: after the interrupt every process_file call that was in progress
\* still runs to its end.
C12_InFlightTasksFinish ==
    (coord = "exited") ~> (tasks = EmptyBag)

\* C13: every step of a process_file call follows the order first check,
\* sleep, second check, classification, move_file: a call starts sleeping
\* only from a passed first check, is classified only from a passed second
\* check, enters move_file only from the classification; and a call that
\* fails a check ends as skipped, having read, classified and moved nothing.
C13_TwoRoundAdmission ==
    [][ /\ \A q \in BagToSet(tasks') :
              Entered(q) =>
                \/ q.pc = "check1" /\ Untouched(q)
                \/ /\ q.pc = "settling" /\ Untouched(q)
                   /\ Left([q EXCEPT !.pc = "check1"])
                   /\ Admitted(q.path)
                \/ /\ q.pc = "classify" /\ Untouched(q)
                   /\ Left([q EXCEPT !.pc = "settling"])
                   /\ Admitted(q.path)
                \/ /\ q.pc = "mkdir"
                   /\ \E r \in BagToSet(tasks) :
                         r.pc = "classify" /\ SameCall(r, q) /\ Left(r)
                \/ /\ q.pc \in {"exists", "probe", "move"}
                   /\ \E r \in BagToSet(tasks) :
                         /\ r.pc \in {"mkdir", "exists", "probe"}
                         /\ SameCall(r, q) /\ Left(r)
        /\ \A q \in done' \ done :
                \/ /\ q.pc = "skipped1" /\ Untouched(q)
                   /\ Left([q EXCEPT !.pc = "check1"])
                   /\ ~Admitted(q.path)
                \/ /\ q.pc = "skipped2" /\ Untouched(q)
                   /\ Left([q EXCEPT !.pc = "settling"])
                   /\ ~Admitted(q.path)
                \/ /\ q.pc = "nomatch"
                   /\ \E r \in BagToSet(tasks) :
                         r.pc = "classify" /\ SameCall(r, q) /\ Left(r)
                \/ /\ q.pc = "moved"
                   /\ Left([q EXCEPT !.pc = "move"])
                \/ /\ q.pc = "error"
                   /\ \E r \in BagToSet(tasks) :
                         /\ r.pc \in {"mkdir", "move"}
                         /\ SameCall(r, q) /\ Left(r) ]_vars

\* of two calls for one path, one has moved the file and the other has
\* ended as skipped at the check after the sleep
C13_Witness ==
    \E q, r \in done :
        /\ q.path = r.path
        /\ q.pc = "moved"
        /\ r.pc = "skipped2"

\* C14: a call in its settle delay never holds up the coordinator: the call
\* that sleeps is not one the main thread is inside of.
C14_SettleNeverBlocksCoordinator ==
    \A r \in BagToSet(tasks) :
        r.pc = "settling" => ~(r.sync /\ coord = "scan_wait")

\* C15: with the polling watcher, threads are started only by a round of
\* the polling loop, one for each name of the listing that is not in seen,
\* and that round sets seen to the listing; seen is first set to the
\* listing without starting any thread.
C15_PollingBookkeeping ==
    [][ watch = "polling" =>
          /\ \A n \in Names :
                Entered(NewTask(n, FALSE)) => (coord = "poll" /\ n \in Listing \ seen)
          /\ ( /\ coord = "poll"
               /\ seen' /= seen \/ \E n \in Names : Entered(NewTask(n, FALSE)) )
             => /\ seen' = Listing
                /\ \A n \in Names :
                      CopiesIn(NewTask(n, FALSE), tasks') =
                        CopiesIn(NewTask(n, FALSE), tasks)
                          + (IF n \in Listing \ seen THEN 1 ELSE 0)
          /\ (coord /= "poll" /\ seen' /= seen)
             => /\ seen' = Listing
                /\ coord' = "poll"
                /\ tasks' = tasks ]_vars

\* the polling loop has started a thread for a name, which is now in seen
C15_Witness ==
    /\ watch = "polling"
    /\ coord = "poll"
    /\ \E r \in AllTasks : ~r.sync /\ r.path \in seen

\* C16: a call whose file has vanished ends as skipped: none ends with the
\* error of a file that is not there.
C16_VanishedFileSkipped ==
    \A r \in done : r.pc = "error" => r.exc /= "FileNotFoundError"

\* C17: a file whose writer is still writing to it has not been moved: it
\* is still in the watched directory.
C17_NotMovedWhileWritten ==
    \A n \in writing : downloads[n] /= NoFile

\* C18: a process_file call changes the watched directory only by the
\* move that completes: every other step of a call leaves each file at its
\* path.
C18_FileInPlaceUntilMoved ==
    [][ (downloads' /= downloads /\ env' = env)
        => \E r \in BagToSet(tasks) :
              /\ r.pc = "move"
              /\ Left(r)
              /\ [r EXCEPT !.pc = "moved"] \in done'
              /\ downloads[r.path] /= NoFile
              /\ downloads' = [downloads EXCEPT ![r.path] = NoFile] ]_vars

\* a call has been stopped inside move_file by an error, and its file is
\* still at its path, the destination as it was
C18_Witness ==
    \E r \in done :
        /\ r.pc = "error"
        /\ r.exc = "OSError"
        /\ IsFile(r.path)
        /\ dest = Prior

\* C19: under every interleaving a move replaces no file of the
\* destination: every file that was there is still there, and there is one
\* file more.
C19_MoveNeverReplaces ==
    [][ \A r \in BagToSet(tasks) :
          ( /\ r.pc = "move"
            /\ Left(r)
            /\ env' = env
            /\ downloads[r.path] /= NoFile
            /\ downloads'[r.path] = NoFile )
          => /\ dest \subseteq dest'
             /\ Cardinality(dest') = Cardinality(dest) + 1 ]_vars

====
